---- MODULE Spec2Model ----
(***************************************************************************)
(* Model of no-code/google-functions/transcript/main.py: the storage-      *)
(* triggered handler process_audio and its helper transcribe_audio.        *)
(*                                                                         *)
(* Object keys are sequences of tokens, so that the string operations of   *)
(* the handler (split on ".", lower(), substring test, concatenation of    *)
(* "_converted.wav" and ".txt") are computed rather than assumed.          *)
(***************************************************************************)
EXTENDS Integers, Sequences, FiniteSets, TLC

\* ---------------------------------------------------------------- bounds
\* Longest stem ("a", "aa", ...) of a generated object key.
MaxStem == 1

\* --------------------------------------------------------- program constants
FfmpegRate == 16000
SampleRateHertz == 16000

\* ------------------------------------------------------------------ inputs
Invocations == {"i1", "i2"}

Dot == "."
Marker == "_converted"
ExtTokens == {"wav", "WAV", "m4a", "mp3", "txt"}

RECURSIVE Stem(_)
Stem(n) == IF n = 0 THEN << >> ELSE <<"a">> \o Stem(n - 1)

Stems == {Stem(n) : n \in 1..MaxStem}

\* f"{file_name}_converted.wav"
ConvertedName(file_name) == file_name \o <<Marker, Dot, "wav">>

\* f"{file_name}.txt"
TranscriptName(file_name) == file_name \o <<Dot, "txt">>

BaseKeys ==
    {s \o m \o t : s \in Stems, m \in {<< >>, <<Marker>>},
                   t \in {<< >>} \cup {<<Dot, e>> : e \in ExtTokens}}

\* Keys an upload notification can carry, the handler's own converted
\* outputs included.
Keys == BaseKeys \cup {ConvertedName(k) : k \in BaseKeys}

Buckets == {"b1", ""}
Names == Keys \cup {<< >>}

\* Trigger payloads: dictionaries that may lack either field.
Events ==
    {[bucket |-> b, name |-> n] : b \in Buckets, n \in Names}
        \cup {[bucket |-> b] : b \in Buckets}
        \cup {[name |-> n] : n \in Names}

\* ------------------------------------------------------------ pure helpers
Lower(tok) ==
    CASE tok = "WAV" -> "wav"
      [] OTHER -> tok

RECURSIVE LastDot(_, _)
LastDot(s, n) ==
    IF n = 0 THEN 0
    ELSE IF s[n] = Dot THEN n ELSE LastDot(s, n - 1)

\* file_name.split(".")[-1].lower()
FileExtension(file_name) ==
    LET d == LastDot(file_name, Len(file_name))
        seg == SubSeq(file_name, d + 1, Len(file_name))
    IN [k \in 1..Len(seg) |-> Lower(seg[k])]

\* "_converted" in file_name
HasMarker(file_name) == \E k \in 1..Len(file_name) : file_name[k] = Marker

\* Variant: one fixed scratch path, f"/tmp/audio".
LocalFileFixed(file_name) == <<"/tmp/", "audio">>

\* f"/tmp/{file_name}"
LocalFile(file_name) == <<"/tmp/">> \o file_name

\* Variant: one fixed output path, "/tmp/converted.wav".
LocalConvertedFixed(file_name) == <<"/tmp/", "converted", Dot, "wav">>

\* f"/tmp/{file_name}_converted.wav"
LocalConverted(file_name) == <<"/tmp/">> \o ConvertedName(file_name)

\* f"gs://{bucket_name}/{name}"
GcsUri(bucket_name, name) == [bucket |-> bucket_name, name |-> name]

NoUri == GcsUri("", << >>)

\* Variant: the encoding is not derived from the format.
EncodingAlwaysLinear(ext) == "LINEAR16"

\* LINEAR16 if file_extension == "wav" else MP3
Encoding(ext) == IF ext = <<"wav">> THEN "LINEAR16" ELSE "MP3"

\* Variant: only the bucket is tested.
EmptyFieldBucketOnly(bucket_name, file_name) == bucket_name = ""

\* not bucket_name or not file_name
EmptyField(bucket_name, file_name) == bucket_name = "" \/ file_name = << >>

\* Variant: file_name.endswith("_converted.wav"), case-sensitive.
IsConvertedSuffixOnly(file_name, ext) ==
    /\ Len(file_name) >= 3
    /\ SubSeq(file_name, Len(file_name) - 2, Len(file_name))
          = <<Marker, Dot, "wav">>

\* file_extension == "wav" and "_converted" in file_name
IsConverted(file_name, ext) == ext = <<"wav">> /\ HasMarker(file_name)

\* Variant: check=True left out, the return code is ignored.
RunUnchecked(rc) == TRUE

\* subprocess.run(..., check=True) returns only on a zero return code
RunSucceeded(rc) == rc = 0

\* Variant: except ValueError.
CatchesValueErrorOnly(kind) == kind \in {"InvalidEvent", "UnsupportedFormat"}

\* except Exception: every failure of the try block is an Exception
Catches(kind) == kind \in {"InvalidEvent", "UnsupportedFormat",
                           "StorageFailure", "TranscodeFailure",
                           "TranscriptionFailure"}

\* ------------------------------------------------------------------- state
VARIABLES
    pc,              \* position of each invocation in process_audio
    event,           \* trigger payload of each invocation
    file_extension,  \* local variable file_extension
    gcs_uri,         \* local variable gcs_uri
    exc,             \* exception raised in the try block, "none" if none
    log,             \* failures printed by the except handlers
    trace,           \* external operations attempted, in order
    job,             \* the long-running recognition operation
    outcome,         \* how the invocation ended
    fs,              \* paths that exist under /tmp
    storage          \* objects written to the bucket

vars == <<pc, event, file_extension, gcs_uri, exc, log, trace, job, outcome,
          fs, storage>>

HasField(ev, f) == f \in DOMAIN ev

KeyOf(ev) == IF HasField(ev, "name") THEN ev.name ELSE << >>

Running(i) == pc[i] \notin {"idle", "done"}

Init ==
    /\ pc = [i \in Invocations |-> "idle"]
    /\ event \in [Invocations -> Events]
    /\ file_extension = [i \in Invocations |-> << >>]
    /\ gcs_uri = [i \in Invocations |-> NoUri]
    /\ exc = [i \in Invocations |-> "none"]
    /\ log = [i \in Invocations |-> << >>]
    /\ trace = [i \in Invocations |-> << >>]
    /\ job = [i \in Invocations |-> "none"]
    /\ outcome = [i \in Invocations |-> "none"]
    /\ fs = {}
    /\ storage = {}

\* The framework delivers the event.  One notification is delivered per
\* object, so two invocations overlap only on different keys; the same key
\* can be handled again once the earlier invocation has ended.
Start(i) ==
    /\ pc[i] = "idle"
    /\ \A j \in Invocations \ {i} :
          Running(j) => KeyOf(event[j]) # KeyOf(event[i])
    /\ pc' = [pc EXCEPT ![i] = "validate"]
    /\ UNCHANGED <<event, file_extension, gcs_uri, exc, log, trace, job,
                   outcome, fs, storage>>

\* raise inside the try block of process_audio
Raise(i, kind) ==
    /\ pc' = [pc EXCEPT ![i] = "except"]
    /\ exc' = [exc EXCEPT ![i] = kind]

\* lines 15-20
Validate(i) ==
    /\ pc[i] = "validate"
    /\ IF ~HasField(event[i], "bucket") \/ ~HasField(event[i], "name")
       THEN Raise(i, "InvalidEvent")
       ELSE IF EmptyField(event[i].bucket, event[i].name)
       THEN Raise(i, "InvalidEvent")
       ELSE /\ pc' = [pc EXCEPT ![i] = "detect"]
            /\ UNCHANGED exc
    /\ UNCHANGED <<event, file_extension, gcs_uri, log, trace, job, outcome,
                   fs, storage>>

\* lines 25-28
DetectFormat(i) ==
    /\ pc[i] = "detect"
    /\ LET ext == FileExtension(event[i].name)
       IN /\ file_extension' = [file_extension EXCEPT ![i] = ext]
          /\ IF IsConverted(event[i].name, ext)
             THEN /\ pc' = [pc EXCEPT ![i] = "done"]
                  /\ outcome' = [outcome EXCEPT ![i] = "returned"]
             ELSE /\ pc' = [pc EXCEPT ![i] = "download"]
                  /\ UNCHANGED outcome
    /\ UNCHANGED <<event, gcs_uri, exc, log, trace, job, fs, storage>>

\* lines 30-37: blob.download_to_filename(local_file)
Download(i) ==
    /\ pc[i] = "download"
    /\ LET local_file == LocalFile(event[i].name)
       IN \E ok \in BOOLEAN :
            /\ trace' = [trace EXCEPT ![i] =
                  Append(@, [op |-> "download", path |-> local_file,
                             ok |-> ok])]
            /\ IF ok
               THEN /\ fs' = fs \cup {local_file}
                    /\ pc' = [pc EXCEPT ![i] = "dispatch"]
                    /\ UNCHANGED exc
               ELSE /\ Raise(i, "StorageFailure")
                    /\ UNCHANGED fs
    /\ UNCHANGED <<event, file_extension, gcs_uri, log, job, outcome,
                   storage>>

\* lines 40-42, 53-54, 81-86: the branch on file_extension
Dispatch(i) ==
    /\ pc[i] = "dispatch"
    /\ LET source == GcsUri(event[i].bucket, event[i].name)
       IN CASE file_extension[i] = <<"wav">> ->
                 /\ gcs_uri' = [gcs_uri EXCEPT ![i] = source]
                 /\ pc' = [pc EXCEPT ![i] = "recognize"]
                 /\ UNCHANGED exc
            [] file_extension[i] = <<"m4a">> ->
                 /\ pc' = [pc EXCEPT ![i] = "ffmpeg"]
                 /\ UNCHANGED <<gcs_uri, exc>>
            [] file_extension[i] = <<"mp3">> ->
                 /\ gcs_uri' = [gcs_uri EXCEPT ![i] = source]
                 /\ pc' = [pc EXCEPT ![i] = "recognize"]
                 /\ UNCHANGED exc
            [] OTHER ->
                 /\ Raise(i, "UnsupportedFormat")
                 /\ UNCHANGED gcs_uri
    /\ UNCHANGED <<event, file_extension, log, trace, job, outcome, fs,
                   storage>>

\* lines 55-62: subprocess.run(["ffmpeg", ...], check=True).  A failing
\* transcoder may or may not have left a partial output file.
Ffmpeg(i) ==
    /\ pc[i] = "ffmpeg"
    /\ LET local_file == LocalFile(event[i].name)
           local_converted == LocalConverted(event[i].name)
       IN \E rc \in {0, 1}, wrote \in BOOLEAN :
            /\ rc = 0 => (wrote /\ local_file \in fs)
            /\ trace' = [trace EXCEPT ![i] =
                  Append(@, [op |-> "ffmpeg", input |-> local_file,
                             output |-> local_converted,
                             acodec |-> "pcm_s16le", ar |-> FfmpegRate,
                             rc |-> rc, wrote |-> wrote])]
            /\ fs' = IF wrote THEN fs \cup {local_converted} ELSE fs
            /\ IF RunSucceeded(rc)
               THEN /\ pc' = [pc EXCEPT ![i] = "rm_local"]
                    /\ UNCHANGED exc
               ELSE Raise(i, "TranscodeFailure")
    /\ UNCHANGED <<event, file_extension, gcs_uri, log, job, outcome,
                   storage>>

\* os.path.exists(path) and os.remove(path)
Remove(i, path) ==
    IF path \in fs
    THEN /\ fs' = fs \ {path}
         /\ trace' = [trace EXCEPT ![i] =
               Append(@, [op |-> "remove", path |-> path])]
    ELSE UNCHANGED <<fs, trace>>

\* lines 65-66
RemoveLocal(i) ==
    /\ pc[i] = "rm_local"
    /\ Remove(i, LocalFile(event[i].name))
    /\ pc' = [pc EXCEPT ![i] = "upload_converted"]
    /\ UNCHANGED <<event, file_extension, gcs_uri, exc, log, job, outcome,
                   storage>>

\* lines 69-76: converted_blob.upload_from_filename(local_converted)
UploadConverted(i) ==
    /\ pc[i] = "upload_converted"
    /\ LET converted_blob_name == ConvertedName(event[i].name)
           obj == GcsUri(event[i].bucket, converted_blob_name)
       IN \E ok \in BOOLEAN :
            /\ trace' = [trace EXCEPT ![i] =
                  Append(@, [op |-> "upload", object |-> obj,
                             from |-> "file", ok |-> ok])]
            /\ IF ok
               THEN /\ storage' = storage \cup {obj}
                    /\ file_extension' =
                          [file_extension EXCEPT ![i] = <<"wav">>]
                    /\ gcs_uri' = [gcs_uri EXCEPT ![i] = obj]
                    /\ pc' = [pc EXCEPT ![i] = "rm_converted"]
                    /\ UNCHANGED exc
               ELSE /\ Raise(i, "StorageFailure")
                    /\ UNCHANGED <<storage, file_extension, gcs_uri>>
    /\ UNCHANGED <<event, log, job, outcome, fs>>

\* Variant: the converted temporary is never removed.
RemoveConvertedForgotten(i) ==
    /\ pc[i] = "rm_converted"
    /\ pc' = [pc EXCEPT ![i] = "recognize"]
    /\ UNCHANGED <<event, file_extension, gcs_uri, exc, log, trace, job,
                   outcome, fs, storage>>

\* lines 78-79
RemoveConverted(i) ==
    /\ pc[i] = "rm_converted"
    /\ Remove(i, LocalConverted(event[i].name))
    /\ pc' = [pc EXCEPT ![i] = "recognize"]
    /\ UNCHANGED <<event, file_extension, gcs_uri, exc, log, job, outcome,
                   storage>>

\* lines 142-144: the handler of transcribe_audio prints and re-raises
TranscribeRaise(i) ==
    /\ log' = [log EXCEPT ![i] =
          Append(@, [handler |-> "transcribe_audio",
                     kind |-> "TranscriptionFailure"])]
    /\ Raise(i, "TranscriptionFailure")

\* lines 43/90 and 104-123: transcribe_audio up to long_running_recognize
Recognize(i) ==
    /\ pc[i] = "recognize"
    /\ \E ok \in BOOLEAN :
         /\ trace' = [trace EXCEPT ![i] =
               Append(@, [op |-> "recognize", uri |-> gcs_uri[i],
                          encoding |-> Encoding(file_extension[i]),
                          sample_rate_hertz |-> SampleRateHertz,
                          language_code |-> "de-DE", ok |-> ok])]
         /\ IF ok
            THEN /\ job' = [job EXCEPT ![i] = "running"]
                 /\ pc' = [pc EXCEPT ![i] = "poll"]
                 /\ UNCHANGED <<exc, log>>
            ELSE /\ TranscribeRaise(i)
                 /\ UNCHANGED job
    /\ UNCHANGED <<event, file_extension, gcs_uri, outcome, fs, storage>>

\* The speech service finishes the operation, with a response or an error.
OperationCompletes(i) ==
    /\ job[i] = "running"
    /\ \E r \in {"response", "error"} : job' = [job EXCEPT ![i] = r]
    /\ UNCHANGED <<pc, event, file_extension, gcs_uri, exc, log, trace,
                   outcome, fs, storage>>

\* Variant: the loop gives up after one check.
PollGivesUp(i) ==
    /\ pc[i] = "poll"
    /\ pc' = [pc EXCEPT ![i] = "result"]
    /\ UNCHANGED <<event, file_extension, gcs_uri, exc, log, trace, job,
                   outcome, fs, storage>>

\* line 126: while not operation.done()
Poll(i) ==
    /\ pc[i] = "poll"
    /\ pc' = [pc EXCEPT ![i] = IF job[i] # "running" THEN "result"
                               ELSE "sleep"]
    /\ UNCHANGED <<event, file_extension, gcs_uri, exc, log, trace, job,
                   outcome, fs, storage>>

\* lines 127-132: print progress, time.sleep(5)
Sleep(i) ==
    /\ pc[i] = "sleep"
    /\ pc' = [pc EXCEPT ![i] = "poll"]
    /\ UNCHANGED <<event, file_extension, gcs_uri, exc, log, trace, job,
                   outcome, fs, storage>>

\* lines 134-140: operation.result(timeout=1000) and the join
Result(i) ==
    /\ pc[i] = "result"
    /\ trace' = [trace EXCEPT ![i] =
          Append(@, [op |-> "result", job |-> job[i]])]
    /\ IF job[i] = "response"
       THEN /\ pc' = [pc EXCEPT ![i] = "upload_transcript"]
            /\ UNCHANGED <<exc, log>>
       ELSE TranscribeRaise(i)
    /\ UNCHANGED <<event, file_extension, gcs_uri, job, outcome, fs,
                   storage>>

\* lines 46-50 and 93-96: transcription_blob.upload_from_string(...)
UploadTranscript(i) ==
    /\ pc[i] = "upload_transcript"
    /\ LET obj == GcsUri(event[i].bucket, TranscriptName(event[i].name))
       IN \E ok \in BOOLEAN :
            /\ trace' = [trace EXCEPT ![i] =
                  Append(@, [op |-> "upload", object |-> obj,
                             from |-> "string", ok |-> ok])]
            /\ IF ok
               THEN /\ storage' = storage \cup {obj}
                    /\ pc' = [pc EXCEPT ![i] = "done"]
                    /\ outcome' = [outcome EXCEPT ![i] = "returned"]
                    /\ UNCHANGED exc
               ELSE /\ Raise(i, "StorageFailure")
                    /\ UNCHANGED <<storage, outcome>>
    /\ UNCHANGED <<event, file_extension, gcs_uri, log, job, fs>>

\* lines 98-99: except Exception as e: print(...)
Except(i) ==
    /\ pc[i] = "except"
    /\ pc' = [pc EXCEPT ![i] = "done"]
    /\ IF Catches(exc[i])
       THEN /\ log' = [log EXCEPT ![i] =
                  Append(@, [handler |-> "process_audio", kind |-> exc[i]])]
            /\ outcome' = [outcome EXCEPT ![i] = "returned"]
       ELSE /\ outcome' = [outcome EXCEPT ![i] = "raised"]
            /\ UNCHANGED log
    /\ UNCHANGED <<event, file_extension, gcs_uri, exc, trace, job, fs,
                   storage>>

\* One step of the code of invocation i.
Step(i) ==
    \/ Validate(i)
    \/ DetectFormat(i)
    \/ Download(i)
    \/ Dispatch(i)
    \/ Ffmpeg(i)
    \/ RemoveLocal(i)
    \/ UploadConverted(i)
    \/ RemoveConverted(i)
    \/ Recognize(i)
    \/ Poll(i)
    \/ Sleep(i)
    \/ Result(i)
    \/ UploadTranscript(i)
    \/ Except(i)

Next ==
    \E i \in Invocations :
        \/ Start(i)
        \/ Step(i)
        \/ OperationCompletes(i)

Spec == Init /\ [][Next]_vars

\* The interpreter keeps running a started invocation; nothing obliges the
\* speech service to finish an operation.
FairSpec == Spec /\ \A i \in Invocations : WF_vars(Step(i))
\* ------------------------------------------------- observations on a run
ValidEvent(ev) ==
    /\ HasField(ev, "bucket") /\ HasField(ev, "name")
    /\ ev.bucket # "" /\ ev.name # << >>

Supported == {<<"wav">>, <<"m4a">>, <<"mp3">>}

Indices(i, op) == {k \in DOMAIN trace[i] : trace[i][k].op = op}

\* Objects the invocation has written to the bucket, in order.
Written(i) == SelectSeq(trace[i], LAMBDA e : e.op = "upload" /\ e.ok)

\* Recognition operations the invocation has created.
JobsCreated(i) ==
    Cardinality({k \in Indices(i, "recognize") : trace[i][k].ok})

RECURSIVE StagedUpTo(_, _)
StagedUpTo(t, n) ==
    IF n = 0 THEN {}
    ELSE LET e == t[n]
             before == StagedUpTo(t, n - 1)
         IN CASE e.op = "download" /\ e.ok -> before \cup {e.path}
              [] e.op = "ffmpeg" /\ e.wrote -> before \cup {e.output}
              [] e.op = "remove" -> before \ {e.path}
              [] OTHER -> before

\* Local files the invocation has materialised and not removed.
Staged(i) == StagedUpTo(trace[i], Len(trace[i]))

\* Local paths the invocation has written, read or deleted.
Touched(i) ==
    {trace[i][k].path : k \in Indices(i, "download") \cup Indices(i, "remove")}
        \cup {trace[i][k].input : k \in Indices(i, "ffmpeg")}
        \cup {trace[i][k].output : k \in Indices(i, "ffmpeg")}

Succeeded(i) == pc[i] = "done" /\ exc[i] = "none" /\ ValidEvent(event[i])

Logged(i, kind) ==
    \E k \in DOMAIN log[i] :
        log[i][k] = [handler |-> "process_audio", kind |-> kind]

\* ------------------------------------------------------------------ claims

\* C1: whatever step fails, the failure reaches the handler of process_audio,
\* is logged there, and the invocation returns normally: it never ends by
\* raising to the framework.
C1_NeverRaises ==
    \A i \in Invocations :
        /\ outcome[i] # "raised"
        /\ pc[i] = "done" => outcome[i] = "returned"
        /\ (pc[i] = "done" /\ exc[i] # "none") => Logged(i, exc[i])

C1_Witness ==
    \E i, j \in Invocations :
        /\ pc[i] = "done" /\ exc[i] = "TranscriptionFailure"
        /\ pc[j] = "done" /\ exc[j] = "StorageFailure"
        /\ Indices(j, "result") # {}

\* C2: an event whose bucket or name is absent or empty causes no download,
\* transcoder run, upload or transcription, and ends with an InvalidEvent
\* failure in the log.
C2_InvalidEvent ==
    \A i \in Invocations :
        ~ValidEvent(event[i]) =>
            /\ trace[i] = << >>
            /\ job[i] = "none"
            /\ pc[i] = "done" =>
                  log[i] = <<[handler |-> "process_audio",
                              kind |-> "InvalidEvent"]>>

C2_Witness ==
    \E i, j \in Invocations :
        /\ pc[i] = "done" /\ ~HasField(event[i], "bucket")
        /\ pc[j] = "done" /\ HasField(event[j], "name")
        /\ HasField(event[j], "bucket") /\ event[j].name = << >>

\* C3: a key whose extension is not wav, m4a or mp3 causes no storage write
\* and no transcription, and ends with an UnsupportedFormat failure in the
\* log.
C3_UnsupportedFormat ==
    \A i \in Invocations :
        (/\ pc[i] = "done"
         /\ ValidEvent(event[i])
         /\ FileExtension(event[i].name) \notin Supported) =>
            /\ Written(i) = << >>
            /\ Indices(i, "recognize") = {}
            /\ Logged(i, "UnsupportedFormat")

\* C4: a key that contains "_converted" and has the extension wav is skipped:
\* no download, no upload, no transcoder run, no transcription, also when the
\* same key is handled again.
C4_ConvertedSkipped ==
    LET Skipped(i) == /\ HasField(event[i], "name")
                      /\ HasMarker(event[i].name)
                      /\ FileExtension(event[i].name) = <<"wav">>
    IN /\ \A i \in Invocations :
            Skipped(i) =>
                /\ trace[i] = << >>
                /\ job[i] = "none"
                /\ (pc[i] = "done" /\ ValidEvent(event[i])) => log[i] = << >>
       /\ (\A i \in Invocations : Skipped(i)) => (fs = {} /\ storage = {})

C4_Witness ==
    \A i \in Invocations :
        /\ pc[i] = "done"
        /\ ValidEvent(event[i])
        /\ event[i].name = <<"a", Marker, Dot, "WAV">>

M4aSucceeded(i) ==
    Succeeded(i) /\ FileExtension(event[i].name) = <<"m4a">>

OpsOf(t) == [k \in DOMAIN t |-> t[k].op]

DirectSucceeded(i, ext) ==
    /\ Succeeded(i)
    /\ FileExtension(event[i].name) = ext
    /\ ~(ext = <<"wav">> /\ HasMarker(event[i].name))

\* C6: for a wav source without the marker, or an mp3 source, and no failing
\* step, the invocation transcribes once, the source object itself, with
\* LINEAR16 for wav and MP3 for mp3; no transcoder, no converted object; the
\* only object written is <key>.txt, once.
C6_Direct ==
    \A i \in Invocations :
        \A ext \in {<<"wav">>, <<"mp3">>} :
            DirectSucceeded(i, ext) =>
                LET name == event[i].name
                    source == GcsUri(event[i].bucket, name)
                IN trace[i] =
                    <<[op |-> "download", path |-> <<"/tmp/">> \o name,
                       ok |-> TRUE],
                      [op |-> "recognize", uri |-> source,
                       encoding |-> IF ext = <<"wav">> THEN "LINEAR16"
                                    ELSE "MP3",
                       sample_rate_hertz |-> 16000,
                       language_code |-> "de-DE", ok |-> TRUE],
                      [op |-> "result", job |-> "response"],
                      [op |-> "upload",
                       object |-> GcsUri(event[i].bucket,
                                         name \o <<Dot, "txt">>),
                       from |-> "string", ok |-> TRUE]>>

C6_Witness ==
    \E i, j \in Invocations :
        DirectSucceeded(i, <<"wav">>) /\ DirectSucceeded(j, <<"mp3">>)

TranscoderFailed(i) ==
    \E k \in Indices(i, "ffmpeg") : trace[i][k].rc # 0

\* C7: once the transcoder has exited non-zero the invocation uploads
\* nothing and starts no transcription.
C7_TranscoderFailure ==
    \A i \in Invocations :
        TranscoderFailed(i) =>
            /\ Indices(i, "upload") = {}
            /\ Indices(i, "recognize") = {}
            /\ job[i] = "none"
            /\ Written(i) = << >>

C7_Witness ==
    \E i \in Invocations :
        pc[i] = "done" /\ TranscoderFailed(i) /\ Logged(i, "TranscodeFailure")

InLoop(i) == pc[i] \in {"poll", "sleep"}

TranscriptUploaded(i) ==
    \E k \in Indices(i, "upload") :
        trace[i][k].from = "string" /\ trace[i][k].ok

\* C8: the result is fetched only after the operation has reported
\* completion; while the operation is not complete the invocation stays in
\* the poll loop, however often it has polled, and writes no transcript;
\* once the operation is complete the loop is left and the invocation ends
\* with a transcript upload or a logged failure.
C8_PollLoop ==
    /\ [](\A i \in Invocations :
            /\ (pc[i] = "result" \/ Indices(i, "result") # {})
                  => job[i] \in {"response", "error"}
            /\ job[i] = "running" => ~TranscriptUploaded(i))
    /\ [][\A i \in Invocations :
            (InLoop(i) /\ job[i] = "running") => InLoop(i)']_vars
    /\ \A i \in Invocations :
            (InLoop(i) /\ job[i] # "running")
                ~> (pc[i] = "done" /\ (TranscriptUploaded(i) \/ log[i] # << >>))

C8_Witness ==
    \E i, j \in Invocations :
        /\ pc[i] = "sleep" /\ job[i] = "running"
        /\ pc[j] = "done" /\ TranscriptUploaded(j)

\* C9 as stated: at most one staging file and one transcription job per
\* invocation.
C9_AtMostOneStaged ==
    \A i \in Invocations :
        Cardinality(Staged(i)) <= 1 /\ JobsCreated(i) <= 1

\* C9 amended: an invocation holds at most one staging file for a wav or mp3
\* source and at most two (the downloaded original and the converted file)
\* for an m4a source, and creates at most one transcription job; invocations
\* on different keys hold no staging file in common.
C9_Staging ==
    \A i \in Invocations :
        /\ Cardinality(Staged(i)) <= 2
        /\ Cardinality(Staged(i)) = 2 =>
              FileExtension(event[i].name) = <<"m4a">>
        /\ JobsCreated(i) <= 1
        /\ \A j \in Invocations \ {i} :
              KeyOf(event[i]) # KeyOf(event[j]) =>
                  Staged(i) \cap Staged(j) = {}

C9_Witness ==
    \E i, j \in Invocations :
        /\ i # j
        /\ Cardinality(Staged(i)) = 2
        /\ Cardinality(Staged(j)) = 1
        /\ Running(i) /\ Running(j)

\* C10: two invocations on different keys never touch the same local path,
\* whatever the interleaving of their steps.
C10_DisjointPaths ==
    \A i, j \in Invocations :
        KeyOf(event[i]) # KeyOf(event[j]) =>
            Touched(i) \cap Touched(j) = {}

C10_Witness ==
    \E i, j \in Invocations :
        /\ KeyOf(event[i]) # KeyOf(event[j])
        /\ pc[i] = "upload_converted" /\ Cardinality(Touched(i)) = 2
        /\ pc[j] = "rm_converted"
====
